---- MODULE Spec2Model ----
(***************************************************************************)
(* A model of RegistryClient (src/registry.ts): one client bound to a      *)
(* registry host and a repository, on which one public method is called.   *)
(* A request that is in flight is an entry of `requests` without a reply;  *)
(* the registry (the transport's peer) answers it with any response or     *)
(* with a transport error, and the answer runs the callback the code       *)
(* registered for it.                                                      *)
(***************************************************************************)
EXTENDS Integers, Sequences, FiniteSets, TLC

VARIABLES call, requests, outcome, settleCalls, uncaught, up, dl, peer

vars == <<call, requests, outcome, settleCalls, uncaught, up, dl, peer>>

(***************************************************************************)
(* Bounds of the model.                                                    *)
(***************************************************************************)
\* longest blob, in bytes
MaxLen == 2

(***************************************************************************)
(* JavaScript values.                                                      *)
(***************************************************************************)
\* the value undefined, where the code has a string or undefined
undefined == "<undefined>"

\* v + '' on a string or undefined
Str(v) == IF v = undefined THEN "undefined" ELSE v

\* the truthiness of a string or undefined
Truthy(v) == v # undefined /\ v # ""

\* the bytes a blob is made of ('a' and 'b')
Byte == {97, 98}

RECURSIVE SeqsUpTo(_)
SeqsUpTo(n) == IF n = 0 THEN {<<>>}
               ELSE SeqsUpTo(n - 1) \cup [1..n -> Byte]

Blobs == SeqsUpTo(MaxLen)

\* crypto.createHash('sha256').update(m).digest('hex')
Sha256Hex(m) ==
  CASE m = <<>> -> "e3b0c44298fc1c149afbf4c8996fb92427ae41e4649b934ca495991b7852b855"
    [] m = <<97>> -> "ca978112ca1bbdcafac231b39a23dc4da786eff8147c4e72b9807785afee48bb"
    [] m = <<98>> -> "3e23e8160039594a33894f6564e1b1348bbd7a0088d42c4acb73eeaed59c009d"
    [] m = <<97, 97>> -> "961b6dd3ede3cb8ecbaacbd68de040cd78eb2ed5889130cceb4c49268ea4d506"
    [] m = <<97, 98>> -> "fb8e20fc2e4c3f248c60c39bd652f3c1347298bb977b8b4d5903b85055620603"
    [] m = <<98, 97>> -> "970f519c2cadbcefb1e81694f904bc6229dd2a8300e98c6d0d4fc4bfca584140"
    [] m = <<98, 98>> -> "3b64db95cb55c763391c707108489ae18b4112d783300de38e033b4c98c3deaf"
    [] m = <<97, 97, 97>> -> "9834876dcfb05cb167a5c24953eba58c4ac89b1adf57f28f2f9d09af107ee8f0"
    [] m = <<97, 97, 98>> -> "38760eabb666e8e61ee628a17c4090cc50728e095ff24218119d51bd22475363"
    [] m = <<97, 98, 97>> -> "e124adcce1fb2f88e1ea799c3d0820845ed343e6c739e54131fcb3a56e4bc1bd"
    [] m = <<97, 98, 98>> -> "715edf8ba8729420cd4d1ce85ed61954a9f531f8c548df728c407effe839296d"
    [] m = <<98, 97, 97>> -> "665edae6d52666d13e3573cc42f6799ca415b87312c3bd0fa37ea44e0de1fe64"
    [] m = <<98, 97, 98>> -> "ecdd97405c79b408ee7791029d05d2b57893d9b06a1282531e0df729daefcef5"
    [] m = <<98, 98, 97>> -> "324e8d5716afe4775118fe12256fd3d488cce575e375ce6f8eb16cb4b5bbb5d3"
    [] m = <<98, 98, 98>> -> "3e744b9dc39389baf0c5a0660589b8402f3dbb49b89b3e75f2c9355852a3c677"
    [] m = <<123, 125>> -> "44136fa355b3678a1146ad16f7e8649e94fb4fc21fe77e8310c060f61caaff8a"
    [] m = <<91, 93>> -> "4f53cda18c2baa0c0354bb5f9a3ecbe5ed12ab4d8e11ba873c2f11161202b945"

\* 'sha256:' + crypto.createHash('sha256').update(m).digest('hex')
DigestOf(m) == "sha256:" \o Sha256Hex(m)

(***************************************************************************)
(* The client: constructor arguments (registry.ts:32-36).                  *)
(***************************************************************************)
_registry == "gcr.io"

_repository == "proj/image"

\* `https://${this._registry}/v2/${this._repository}/` as origin and path
RepoUrl(rest) ==
  [origin |-> "https://" \o _registry,
   path |-> "/v2/" \o _repository \o "/" \o rest]

\* a URL as one string
Href(u) == u.origin \o u.path

(***************************************************************************)
(* What the transport hands to a callback: (err, res, body).               *)
(***************************************************************************)
\* no Location header
NoLocation == [origin |-> "", path |-> ""]

\* err is "" when there is none; res is undefined on a transport error
TransportErrors == {[err |-> "ECONNRESET", res |-> [defined |-> FALSE]]}

\* a response with the given status, headers and body
Response(status, uuid, contentDigest, location, body) ==
  [err |-> "",
   res |-> [defined |-> TRUE, statusCode |-> status,
            headers |-> [uuid |-> uuid, contentDigest |-> contentDigest,
                         location |-> location],
            body |-> body]]

\* the reply a request has before it is answered
NoReply == [err |-> "", res |-> [defined |-> FALSE], pending |-> TRUE]

\* a request as issued: method, URL, headers, and the body written so far
Request(method, url, headers) ==
  [method |-> method, url |-> url, headers |-> headers,
   body |-> <<>>, ended |-> FALSE, reply |-> NoReply]

\* the headers of a request that sets none the model follows
NoHeaders == [Accept |-> "*/*"]

Pending(i) == i \in DOMAIN requests /\ requests[i].reply = NoReply

\* req.end(buf): the body is written and the request is complete
End(req, buf) == [req EXCEPT !.body = @ \o buf, !.ended = TRUE]

\* a request whose body the code never writes: it is sent as it is
Sent(method, url, headers) == End(Request(method, url, headers), <<>>)

(***************************************************************************)
(* The promise a method returns: the first resolve or reject settles it,   *)
(* later ones are ignored.                                                 *)
(***************************************************************************)
Unsettled == [state |-> "pending"]

Resolve(o, v) ==
  IF o.state = "pending" THEN [state |-> "resolved", value |-> v] ELSE o

Reject(o, e) ==
  IF o.state = "pending" THEN [state |-> "rejected", value |-> e] ELSE o

\* new Error(message)
Error(message) == [name |-> "Error", message |-> message]

\* the err argument of a callback, as the rejection value
TransportError(err) == [name |-> "TransportError", message |-> err]

\* the closure variables of upload() and of blob() while no such call runs
Idle == [active |-> FALSE]

\* a call that has not been made yet: what a second call on the client
\* starts from
Fresh ==
  [call |-> [op |-> "none"], requests |-> <<>>, outcome |-> Unsettled,
   settleCalls |-> 0, uncaught |-> {}, up |-> Idle]

Init ==
  /\ call = [op |-> "none"]
  /\ requests = <<>>
  /\ outcome = Unsettled
  /\ settleCalls = 0
  /\ uncaught = {}
  /\ up = Idle
  /\ dl = Idle
  /\ peer = Fresh

(***************************************************************************)
(* blobExists (registry.ts:136-147)                                        *)
(***************************************************************************)
ExistsStatuses == {200, 204, 301, 404, 500}

blobExists(digest) ==
  /\ call.op = "none"
  /\ call' = [op |-> "blobExists", digest |-> digest]
  /\ requests' = <<Sent("HEAD", RepoUrl("blobs/" \o digest), NoHeaders)>>
  /\ UNCHANGED <<outcome, settleCalls, uncaught, up, dl, peer>>

\* a variant that takes every 2xx status for success
ExistsResult_Any2xx(statusCode) == statusCode >= 200 /\ statusCode < 300

\* res.statusCode === 200
ExistsResult(statusCode) == statusCode = 200

\* (err, res) => { if (err) reject(err); resolve(res.statusCode === 200); }
blobExistsCallback(reply) ==
  /\ call.op = "blobExists"
  /\ Pending(1)
  /\ requests' = [requests EXCEPT ![1].reply = reply]
  /\ LET o1 == IF reply.err # "" THEN Reject(outcome, TransportError(reply.err))
                                 ELSE outcome
         n1 == IF reply.err # "" THEN 1 ELSE 0
     IN IF reply.res.defined
          THEN /\ outcome' = Resolve(o1, ExistsResult(reply.res.statusCode))
               /\ settleCalls' = settleCalls + n1 + 1
               /\ UNCHANGED uncaught
          ELSE \* res is undefined: reading res.statusCode throws
               /\ outcome' = o1
               /\ settleCalls' = settleCalls + n1
               /\ uncaught' = uncaught \cup {"TypeError"}
  /\ UNCHANGED <<call, up, dl, peer>>

\* the response bodies of the model, as text
Bodies == {"", "OK"}

(***************************************************************************)
(* mount (registry.ts:351-373)                                             *)
(***************************************************************************)
MountStatuses == {200, 201, 202, 404}

FromRepositories == {"proj/base", "other/repo"}

mount(digest, fromRepository) ==
  /\ call.op = "none"
  /\ call' = [op |-> "mount", digest |-> digest,
              fromRepository |-> fromRepository]
  /\ requests' = <<Sent("POST",
                        RepoUrl("blobs/uploads?mount=" \o digest \o "&from="
                                \o fromRepository),
                        [ContentLength |-> 0])>>
  /\ UNCHANGED <<outcome, settleCalls, uncaught, up, dl, peer>>

\* a variant that also takes 202 (upload session started) for success
MountAccepted_Or202(statusCode) == statusCode = 201 \/ statusCode = 202

\* the status on which mount resolves
MountAccepted(statusCode) == statusCode = 201

\* new Error(`mount failed for ${digest} from ${fromRepository} to ...`)
MountError(digest, fromRepository) ==
  Error("mount failed for " \o digest \o " from " \o fromRepository
        \o " to " \o _repository)

mountCallback(reply) ==
  /\ call.op = "mount"
  /\ Pending(1)
  /\ requests' = [requests EXCEPT ![1].reply = reply]
  /\ outcome' =
       IF reply.err # "" THEN Reject(outcome, TransportError(reply.err))
       ELSE IF ~MountAccepted(reply.res.statusCode)
         THEN Reject(outcome, MountError(call.digest, call.fromRepository))
         ELSE Resolve(outcome, Str(reply.res.body))
  /\ settleCalls' = settleCalls + 1
  /\ UNCHANGED <<call, uncaught, up, dl, peer>>

(***************************************************************************)
(* manifestUpload (registry.ts:90-134)                                     *)
(***************************************************************************)
ManifestStatuses == {200, 201, 202, 400}

\* the tag argument; false and '' are both falsy and are both written ""
Tags == {"", "v1", "latest"}

\* the manifest argument: a Buffer, or a value that is serialized
Manifests == [isBuffer : {TRUE}, bytes : Blobs]
             \cup [isBuffer : {FALSE}, value : {"{}", "[]"}]

\* Buffer.from(JSON.stringify(value)) for the values of the model
JSONStringify(value) ==
  CASE value = "{}" -> <<123, 125>>
    [] value = "[]" -> <<91, 93>>

\* Buffer.isBuffer(manifest) ? manifest : Buffer.from(JSON.stringify(manifest))
ManifestBuf(manifest) ==
  IF manifest.isBuffer THEN manifest.bytes ELSE JSONStringify(manifest.value)

\* if (!tag) tag = digest
ManifestRef(tag, digest) == IF ~Truthy(tag) THEN digest ELSE tag

manifestUpload(tag, manifest) ==
  /\ call.op = "none"
  /\ call' = [op |-> "manifestUpload", tag |-> tag, manifest |-> manifest]
  /\ LET manifestBuf == ManifestBuf(manifest)
         digest == DigestOf(manifestBuf)
         req == Request("PUT", RepoUrl("manifests/" \o ManifestRef(tag, digest)),
                        [ContentType |->
                           "application/vnd.docker.distribution.manifest.v2+json"])
     IN /\ requests' = <<End(req, manifestBuf)>>
        /\ up' = [active |-> FALSE, digest |-> digest]
  /\ UNCHANGED <<outcome, settleCalls, uncaught, dl, peer>>

\* the statuses on which manifestUpload resolves
ManifestAccepted(statusCode) == statusCode = 200 \/ statusCode = 201

\* a variant that returns the digest the registry reports
ManifestResult_FromHeader(res, digest) ==
  [status |-> res.statusCode, digest |-> Str(res.headers.contentDigest),
   body |-> res.body]

\* resolve({status: res.statusCode, digest, body})
ManifestResult(res, digest) ==
  [status |-> res.statusCode, digest |-> digest, body |-> res.body]

manifestUploadCallback(reply) ==
  /\ call.op = "manifestUpload"
  /\ Pending(1)
  /\ requests' = [requests EXCEPT ![1].reply = reply]
  /\ outcome' =
       IF reply.err # "" THEN Reject(outcome, TransportError(reply.err))
       ELSE IF ~ManifestAccepted(reply.res.statusCode)
         THEN Reject(outcome,
                     Error("unexpected status code "
                           \o ToString(reply.res.statusCode) \o " "
                           \o reply.res.body))
         ELSE Resolve(outcome, ManifestResult(reply.res, up.digest))
  /\ settleCalls' = settleCalls + 1
  /\ UNCHANGED <<call, uncaught, up, dl, peer>>

(***************************************************************************)
(* manifest (registry.ts:59-88)                                            *)
(*                                                                         *)
(* A response body is its text.  JSON.parse either throws or gives a       *)
(* value, of which the model keeps whether it is null and what its config  *)
(* property is (undefined when it has none).                               *)
(***************************************************************************)
ManifestGetStatuses == {200, 401, 404}

\* the bodies a registry answers a manifest GET with
ManifestBodies ==
  {"{\"schemaVersion\":2,\"config\":{\"size\":1},\"layers\":[]}",
   "{\"errors\":[]}",
   "{\"config\":null}",
   "null",
   "<html>",
   ""}

\* JSON.parse(body + ''): error is the exception thrown ("" when none)
JSONParse(body) ==
  CASE body = "{\"schemaVersion\":2,\"config\":{\"size\":1},\"layers\":[]}"
         -> [error |-> "", isNull |-> FALSE, config |-> "{\"size\":1}",
             json |-> body]
    [] body = "{\"errors\":[]}"
         -> [error |-> "", isNull |-> FALSE, config |-> undefined,
             json |-> body]
    [] body = "{\"config\":null}"
         -> [error |-> "", isNull |-> FALSE, config |-> "null", json |-> body]
    [] body = "null"
         -> [error |-> "", isNull |-> TRUE, config |-> undefined,
             json |-> body]
    [] OTHER
         -> [error |-> "SyntaxError", isNull |-> FALSE, config |-> undefined,
             json |-> ""]

\* the truthiness of parsed.config (an object is truthy, null is not)
ConfigTruthy(parsed) == parsed.config # undefined /\ parsed.config # "null"

\* an exception caught by the try block, as the rejection value
Caught(name) == [name |-> name, message |-> ""]

manifest(tag) ==
  /\ call.op = "none"
  /\ call' = [op |-> "manifest", tag |-> tag]
  /\ requests' = <<Sent("GET", RepoUrl("manifests/" \o tag), NoHeaders)>>
  /\ UNCHANGED <<outcome, settleCalls, uncaught, up, dl, peer>>

\* res.statusCode === 200 && parsed.config, for a parsed value that is not
\* null
ManifestOk(statusCode, parsed) == statusCode = 200 /\ ConfigTruthy(parsed)

\* the callback of the manifest GET (lines 71-86)
manifestCallback(reply) ==
  /\ call.op = "manifest"
  /\ Pending(1)
  /\ requests' = [requests EXCEPT ![1].reply = reply]
  /\ LET res == reply.res
         parsed == JSONParse(Str(res.body))
     IN outcome' =
          IF reply.err # "" THEN Reject(outcome, TransportError(reply.err))
          ELSE IF parsed.error # ""
            THEN Reject(outcome, Caught(parsed.error))
          ELSE IF res.statusCode = 200 /\ parsed.isNull
            \* reading parsed.config of null throws inside the try block
            THEN Reject(outcome, Caught("TypeError"))
          ELSE IF ManifestOk(res.statusCode, parsed)
            THEN Resolve(outcome, parsed)
            ELSE Reject(outcome,
                        Error("unexpected status code "
                              \o ToString(res.statusCode)
                              \o " from docker registry. response "
                              \o res.body))
  /\ settleCalls' = settleCalls + 1
  /\ UNCHANGED <<call, uncaught, up, dl, peer>>

(***************************************************************************)
(* upload (registry.ts:208-349)                                            *)
(*                                                                         *)
(* The closure variables of one call are the record `up`: contentLength    *)
(* and digest (the parameters, reassigned by the code), uuid, hash, the    *)
(* digest the append callback computes (chunkDigest) and the source        *)
(* stream (src).  An omitted contentLength is written 0 and an omitted     *)
(* digest undefined: the code only tests their truthiness (lines 213, 214, *)
(* 243) before it overwrites them.                                         *)
(* Request 1 is the initiate POST, request 2 the monolithic PUT or the     *)
(* PATCH, request 3 the finalize PUT of the chunked path.                  *)
(***************************************************************************)
UploadStatuses == {201, 202, 204, 500}

Uuids == {undefined, "uuid-1", "uuid-2"}

\* crypto.createHash('sha256'): the state of a hash is the bytes it absorbed
CreateHash == [data |-> <<>>, digested |-> FALSE]

\* hash.update(b)
HashUpdate(hash, b) == [hash EXCEPT !.data = @ \o b]

\* a Readable: the bytes it has yet to emit, whether it flows, the request it
\* is piped to (0: none), whether upload's 'data' listener is attached
Readable(bytes) ==
  [rest |-> bytes, flowing |-> TRUE, dest |-> 0, counting |-> FALSE,
   ended |-> FALSE]

\* blob.pause()
Pause(src) == [src EXCEPT !.flowing = FALSE]

\* blob.pipe(req): pipe() puts a paused stream back in flowing mode
Pipe(src, i) == [src EXCEPT !.dest = i, !.flowing = TRUE]

\* if (!contentLength) contentLength = blob.length
DefaultLength(theBlob, contentLength) ==
  IF theBlob.isBuffer /\ contentLength = 0 THEN Len(theBlob.bytes) ELSE contentLength

\* if (!digest) digest = 'sha256:' + createHash('sha256').update(blob)...
DefaultDigest(theBlob, digest) ==
  IF theBlob.isBuffer /\ ~Truthy(digest) THEN DigestOf(theBlob.bytes) ELSE digest

upload(theBlob, contentLength, digest) ==
  /\ call.op = "none"
  /\ call' = [op |-> "upload", blob |-> theBlob, contentLength |-> contentLength,
              digest |-> digest]
  /\ up' = [active |-> TRUE,
            contentLength |-> DefaultLength(theBlob, contentLength),
            digest |-> DefaultDigest(theBlob, digest),
            uuid |-> undefined,
            hash |-> CreateHash,
            chunkDigest |-> undefined,
            src |-> Pause(Readable(IF theBlob.isBuffer THEN <<>> ELSE theBlob.bytes))]
  /\ requests' = <<Sent("POST", RepoUrl("blobs/uploads/"),
                        [ContentLength |-> 0])>>
  /\ UNCHANGED <<outcome, settleCalls, uncaught, dl, peer>>

\* a variant that branches on the length alone
IsMonolithic_LengthOnly(contentLength, digest) == contentLength # 0

\* if (contentLength && digest)
IsMonolithic(contentLength, digest) == contentLength # 0 /\ Truthy(digest)

\* `.../blobs/uploads/${uuid}?digest=${digest}`
FinalizeUrl(uuid, digest) ==
  RepoUrl("blobs/uploads/" \o uuid \o "?digest=" \o digest)

\* `.../blobs/uploads/${uuid}`
AppendUrl(uuid) == RepoUrl("blobs/uploads/" \o uuid)

\* a variant that takes the identifier only from an accepted response
SessionUuid_IfAccepted(res) ==
  IF res.statusCode >= 200 /\ res.statusCode < 300 THEN res.headers.uuid
  ELSE undefined

\* a variant that falls back on the body for the identifier
SessionUuid_OrBody(res) ==
  IF Truthy(res.headers.uuid) THEN res.headers.uuid ELSE res.body

\* let uuid = res.headers['docker-upload-uuid']
SessionUuid(res) == res.headers.uuid

\* the callback of the initiate POST (lines 227-347)
uploadInitiateCallback(reply) ==
  /\ call.op = "upload"
  /\ Len(requests) = 1
  /\ Pending(1)
  /\ LET answered == [requests EXCEPT ![1].reply = reply]
         uuid == SessionUuid(reply.res)
         octets == [ContentType |-> "application/octet-stream"]
     IN IF reply.err # ""
          THEN /\ outcome' = Reject(outcome, TransportError(reply.err))
               /\ settleCalls' = settleCalls + 1
               /\ requests' = answered
               /\ UNCHANGED up
        ELSE IF ~Truthy(uuid)
          THEN /\ outcome' =
                    Reject(outcome,
                           Error("request to start upload did not provide uuid in header docker-upload-uuid."))
               /\ settleCalls' = settleCalls + 1
               /\ requests' = answered
               /\ UNCHANGED up
        ELSE IF IsMonolithic(up.contentLength, up.digest)
          THEN LET putReq ==
                     Request("PUT", FinalizeUrl(uuid, up.digest),
                             [ContentLength |-> up.contentLength,
                              ContentType |-> "application/octet-stream"])
               IN /\ requests' =
                       Append(answered,
                              IF call.blob.isBuffer
                                THEN End(putReq, call.blob.bytes)
                                ELSE putReq)
                  /\ up' = [up EXCEPT
                              !.uuid = uuid,
                              !.src = IF call.blob.isBuffer THEN @
                                      ELSE Pipe(@, 2)]
                  /\ UNCHANGED <<outcome, settleCalls>>
          ELSE LET patchReq == Request("PATCH", AppendUrl(uuid), octets)
               IN IF call.blob.isBuffer
                    THEN /\ requests' =
                              Append(answered, End(patchReq, call.blob.bytes))
                         /\ up' = [up EXCEPT
                                     !.uuid = uuid,
                                     !.hash = HashUpdate(CreateHash,
                                                         call.blob.bytes),
                                     !.contentLength = 0 + Len(call.blob.bytes)]
                         /\ UNCHANGED <<outcome, settleCalls>>
                    ELSE /\ requests' = Append(answered, patchReq)
                         /\ up' = [up EXCEPT
                                     !.uuid = uuid,
                                     !.hash = CreateHash,
                                     !.contentLength = 0,
                                     !.src = [Pipe(@, 2) EXCEPT
                                                !.counting = TRUE]]
                         /\ UNCHANGED <<outcome, settleCalls>>
  /\ UNCHANGED <<call, uncaught, dl, peer>>

\* the source stream emits its next chunk: pipe() writes it to the request
\* and, on the chunked path, the 'data' listener hashes and counts it
\* (lines 342-345)
streamData(k) ==
  /\ call.op = "upload"
  /\ up.src.flowing
  /\ Pending(up.src.dest)
  /\ k \in 1..Len(up.src.rest)
  /\ LET b == SubSeq(up.src.rest, 1, k)
     IN /\ requests' = [requests EXCEPT ![up.src.dest].body = @ \o b]
        /\ up' = [up EXCEPT
                    !.src.rest = SubSeq(@, k + 1, Len(@)),
                    !.hash = IF up.src.counting THEN HashUpdate(@, b) ELSE @,
                    !.contentLength = IF up.src.counting THEN @ + Len(b)
                                      ELSE @]
  /\ UNCHANGED <<call, outcome, settleCalls, uncaught, dl, peer>>

\* the source stream ends: pipe() ends the request
streamEnd ==
  /\ call.op = "upload"
  /\ up.src.flowing
  /\ ~up.src.ended
  /\ Pending(up.src.dest)
  /\ up.src.rest = <<>>
  /\ requests' = [requests EXCEPT ![up.src.dest].ended = TRUE]
  /\ up' = [up EXCEPT !.src.ended = TRUE]
  /\ UNCHANGED <<call, outcome, settleCalls, uncaught, dl, peer>>

\* the status on which a finalize PUT is accepted
PutAccepted(statusCode) == statusCode = 201

\* resolve({contentLength: contentLength! + 0,
\*          digest: res.headers['docker-content-digest'] + ''})
MonolithicResult(contentLength, digest, res) ==
  [contentLength |-> contentLength + 0,
   digest |-> Str(res.headers.contentDigest)]

\* the callback of the monolithic PUT (lines 255-270)
uploadPutCallback(reply) ==
  /\ call.op = "upload"
  /\ Len(requests) = 2
  /\ requests[2].method = "PUT"
  /\ Pending(2)
  /\ requests' = [requests EXCEPT ![2].reply = reply]
  /\ outcome' =
       IF reply.err # "" THEN Reject(outcome, TransportError(reply.err))
       ELSE IF ~PutAccepted(reply.res.statusCode)
         THEN Reject(outcome,
                     Error("unexpected status code "
                           \o ToString(reply.res.statusCode) \o " for upload."))
         ELSE Resolve(outcome,
                      MonolithicResult(up.contentLength, up.digest, reply.res))
  /\ settleCalls' = settleCalls + 1
  /\ UNCHANGED <<call, uncaught, up, dl, peer>>

\* a variant that takes every 2xx status of the PATCH for success
PatchAccepted_Any2xx(statusCode) == statusCode >= 200 /\ statusCode < 300

\* the status on which the append PATCH is accepted
PatchAccepted(statusCode) == statusCode = 204

\* a variant that keeps the identifier of the initiate response
RotatedUuid_Ignored(uuid, res) == uuid

\* uuid = res.headers['docker-upload-uuid'] ? res.headers[...] : uuid
RotatedUuid(uuid, res) ==
  IF Truthy(res.headers.uuid) THEN res.headers.uuid ELSE uuid

\* 'sha256:' + hash.digest('hex')
HashDigest(hash) == "sha256:" \o Sha256Hex(hash.data)

\* the callback of the append PATCH (lines 294-333).  Its first statement
\* reads res.headers before err is tested: with res undefined it throws and
\* nothing after it runs.
uploadPatchCallback(reply) ==
  /\ call.op = "upload"
  /\ Len(requests) = 2
  /\ requests[2].method = "PATCH"
  /\ Pending(2)
  /\ LET answered == [requests EXCEPT ![2].reply = reply]
     IN IF ~reply.res.defined
          THEN /\ uncaught' = uncaught \cup {"TypeError"}
               /\ requests' = answered
               /\ UNCHANGED <<outcome, settleCalls, up>>
        ELSE LET uuid == RotatedUuid(up.uuid, reply.res)
             IN IF reply.err # ""
                  THEN /\ outcome' = Reject(outcome, TransportError(reply.err))
                       /\ settleCalls' = settleCalls + 1
                       /\ requests' = answered
                       /\ up' = [up EXCEPT !.uuid = uuid]
                       /\ UNCHANGED uncaught
                ELSE IF ~PatchAccepted(reply.res.statusCode)
                  THEN /\ outcome' =
                            Reject(outcome,
                                   Error("unexpected status code "
                                         \o ToString(reply.res.statusCode)
                                         \o " for patch upload"))
                       /\ settleCalls' = settleCalls + 1
                       /\ requests' = answered
                       /\ up' = [up EXCEPT !.uuid = uuid]
                       /\ UNCHANGED uncaught
                  ELSE LET digest == HashDigest(up.hash)
                       IN /\ requests' =
                               Append(answered,
                                      Sent("PUT", FinalizeUrl(uuid, digest),
                                           [ContentLength |-> 0,
                                            ContentType |->
                                              "application/octet-stream"]))
                          /\ up' = [up EXCEPT !.uuid = uuid,
                                              !.hash.digested = TRUE,
                                              !.chunkDigest = digest]
                          /\ UNCHANGED <<outcome, settleCalls, uncaught>>
  /\ UNCHANGED <<call, dl, peer>>

\* resolve({contentLength: contentLength!, digest})
ChunkedResult(contentLength, digest, res) ==
  [contentLength |-> contentLength, digest |-> digest]

\* the callback of the chunked path's finalize PUT (lines 320-331)
uploadFinalizeCallback(reply) ==
  /\ call.op = "upload"
  /\ Len(requests) = 3
  /\ Pending(3)
  /\ requests' = [requests EXCEPT ![3].reply = reply]
  /\ outcome' =
       IF reply.err # "" THEN Reject(outcome, TransportError(reply.err))
       ELSE IF ~PutAccepted(reply.res.statusCode)
         THEN Reject(outcome,
                     Error("unexpected status code "
                           \o ToString(reply.res.statusCode)
                           \o " for upload finalization"))
         ELSE Resolve(outcome,
                      ChunkedResult(up.contentLength, up.chunkDigest, reply.res))
  /\ settleCalls' = settleCalls + 1
  /\ UNCHANGED <<call, uncaught, up, dl, peer>>

(***************************************************************************)
(* blob (registry.ts:149-206)                                              *)
(*                                                                         *)
(* The closure variables of one call are the record `dl`: stream (the      *)
(* argument), loop, and for the response of each request the listeners the *)
(* code attached to it (res).  A URL is the pair of its origin and its     *)
(* path; a Location header is such a pair too, with origin "" when it is   *)
(* relative to the host.                                                   *)
(***************************************************************************)
RedirectLimit == 5

BlobStatuses == {200, 307, 404}

\* the statuses of the responses that carry a Location
RedirectStatuses == {200, 307}

Locations ==
  {NoLocation,
   [origin |-> "https://cdn.example", path |-> "/blob"],
   [origin |-> "", path |-> "/v2/mirror/blob"]}

\* a variant that follows a Location only on a 3xx status
HasLocation_Only3xx(res) ==
  /\ res.headers.location # NoLocation
  /\ res.statusCode >= 300
  /\ res.statusCode < 400

\* the truthiness of res.headers.location
HasLocation(res) == res.headers.location # NoLocation

\* urlModule.resolve(from, to) for an absolute or a host-relative `to`
UrlResolve(from, to) ==
  IF to.origin # "" THEN to ELSE [origin |-> from.origin, path |-> to.path]

\* a variant that gives up one hop later
LoopExhausted_OneLater(loop) == loop = RedirectLimit + 1

\* if (loop++ === 5)
LoopExhausted(loop) == loop = RedirectLimit

\* new Error('redirect looped 5 times ' + url)
RedirectLoopError(url) == Error("redirect looped 5 times " \o Href(url))

\* fetch(url) (lines 156-203), called with the requests answered so far and
\* the closure as the caller left it
Fetch(url, reqs, d) ==
  /\ dl' = [d EXCEPT !.loop = @ + 1]
  /\ IF LoopExhausted(d.loop)
       THEN /\ outcome' = Reject(outcome, RedirectLoopError(url))
            /\ settleCalls' = settleCalls + 1
            /\ requests' = reqs
       ELSE /\ requests' = Append(reqs, Sent("GET", url, NoHeaders))
            /\ UNCHANGED <<outcome, settleCalls>>

blob(digest, stream) ==
  /\ call.op = "none"
  /\ call' = [op |-> "blob", digest |-> digest, stream |-> stream]
  /\ Fetch(RepoUrl("blobs/" \o digest), <<>>,
           [active |-> TRUE, stream |-> stream, loop |-> 0, res |-> <<>>,
            consumer |-> [attached |-> FALSE, received |-> undefined]])
  /\ UNCHANGED <<uncaught, up, peer>>

\* the listeners on a response: whether 'data' is listened to (its body is
\* read), what listens to 'error', whether the code paused it
ResListeners(data, error, paused) ==
  [dataListener |-> data, errorListener |-> error, paused |-> paused,
   read |-> FALSE]

\* a response whose body has been read to its end
Read(r) == [r EXCEPT !.read = TRUE]

\* a variant that leaves a superseded response alone
Drained_Abandoned == [ResListeners(FALSE, "none", FALSE) EXCEPT !.paused = TRUE]

\* res.on('error', () => {}); res.on('data', () => {}) (lines 171-172)
Drained == ResListeners(TRUE, "noop", FALSE)

\* a variant that does not pause the response
ResPause_Omitted(r) == r

\* res.pause()
ResPause(r) == [r EXCEPT !.paused = TRUE]

\* a response emits its body unless it is paused: request listens to 'data'
\* of every response it hands out, and the code's own listeners do too
Flowing(r) == ~r.paused

\* the status on which blob resolves
BlobAccepted(statusCode) == statusCode = 200

\* req.on('response', ...) of the streaming branch (lines 169-186)
blobStreamResponse(reply) ==
  /\ call.op = "blob"
  /\ dl.stream
  /\ Pending(Len(requests))
  /\ reply.res.defined
  /\ LET i == Len(requests)
         url == requests[i].url
         res == reply.res
         answered == [requests EXCEPT ![i].reply = reply]
     IN IF HasLocation(res)
          THEN Fetch(UrlResolve(url, res.headers.location), answered,
                     [dl EXCEPT !.res =
                        Append(@, Drained)])
        ELSE IF ~BlobAccepted(res.statusCode)
          THEN /\ dl' = [dl EXCEPT !.res =
                           Append(@, ResListeners(TRUE, "reject", FALSE))]
               /\ outcome' =
                    Reject(outcome,
                           Error("unexpected status code "
                                 \o ToString(res.statusCode)
                                 \o " streaming blob"))
               /\ settleCalls' = settleCalls + 1
               /\ requests' = answered
          ELSE /\ dl' = [dl EXCEPT !.res =
                           Append(@, ResPause(ResListeners(FALSE, "reject",
                                                           FALSE)))]
               /\ outcome' = Resolve(outcome, [res |-> i])
               /\ settleCalls' = settleCalls + 1
               /\ requests' = answered
  /\ UNCHANGED <<call, uncaught, up, peer>>

\* req.on('error', reject) of the streaming branch (line 187)
blobStreamError(reply) ==
  /\ call.op = "blob"
  /\ dl.stream
  /\ Pending(Len(requests))
  /\ reply.err # ""
  /\ requests' = [requests EXCEPT ![Len(requests)].reply = reply]
  /\ outcome' = Reject(outcome, TransportError(reply.err))
  /\ settleCalls' = settleCalls + 1
  /\ UNCHANGED <<call, uncaught, up, dl, peer>>

\* the body of response i arrives: its 'data' and 'end' events.  It goes to
\* the caller's consumer when that is attached to this response, and to the
\* listeners that discard it otherwise.
resData(i) ==
  /\ call.op = "blob"
  /\ dl.stream
  /\ i \in DOMAIN dl.res
  /\ Flowing(dl.res[i])
  /\ ~dl.res[i].read
  /\ dl' = [dl EXCEPT
              !.res[i] = Read(@),
              !.consumer.received =
                 IF /\ dl.consumer.attached
                    /\ outcome = [state |-> "resolved", value |-> [res |-> i]]
                   THEN requests[i].reply.res.body
                   ELSE @]
  /\ UNCHANGED <<call, requests, outcome, settleCalls, uncaught, up, peer>>

\* the caller attaches a consumer to the Readable blob() resolved with
\* (pipe() or on('data') and resume()): the response flows again
consume ==
  /\ call.op = "blob"
  /\ dl.stream
  /\ outcome.state = "resolved"
  /\ ~dl.consumer.attached
  /\ dl' = [dl EXCEPT !.res[outcome.value.res].paused = FALSE,
                      !.res[outcome.value.res].dataListener = TRUE,
                      !.consumer.attached = TRUE]
  /\ UNCHANGED <<call, requests, outcome, settleCalls, uncaught, up, peer>>

\* the callback of the buffered branch (lines 190-202); request has read the
\* whole body of the response before it calls back
blobCallback(reply) ==
  /\ call.op = "blob"
  /\ ~dl.stream
  /\ Pending(Len(requests))
  /\ LET i == Len(requests)
         url == requests[i].url
         res == reply.res
         answered == [requests EXCEPT ![i].reply = reply]
         read == [dl EXCEPT !.res =
                    Append(@, Read(ResListeners(TRUE, "request", FALSE)))]
     IN IF reply.err # ""
          THEN /\ outcome' = Reject(outcome, TransportError(reply.err))
               /\ settleCalls' = settleCalls + 1
               /\ requests' = answered
               /\ UNCHANGED dl
        ELSE IF HasLocation(res)
          THEN Fetch(UrlResolve(url, res.headers.location), answered, read)
        ELSE IF ~BlobAccepted(res.statusCode)
          THEN /\ outcome' =
                    Reject(outcome,
                           Error("unexpected status code "
                                 \o ToString(res.statusCode) \o " "
                                 \o res.body))
               /\ settleCalls' = settleCalls + 1
               /\ requests' = answered
               /\ dl' = read
          ELSE /\ outcome' = Resolve(outcome, res.body)
               /\ settleCalls' = settleCalls + 1
               /\ requests' = answered
               /\ dl' = read
  /\ UNCHANGED <<call, uncaught, up, peer>>

(***************************************************************************)
(* The calls a caller can make and the answers the registry can give.      *)
(***************************************************************************)
\* the digests a caller asks for
SomeDigests == {DigestOf(<<>>), DigestOf(<<97>>)}

ContentDigests == {undefined, DigestOf(<<>>), DigestOf(<<97>>)}

CallBlobExists == \E d \in SomeDigests : blobExists(d)

AnswerBlobExists ==
  \E r \in {Response(s, undefined, undefined, NoLocation, "") :
              s \in ExistsStatuses} \cup TransportErrors :
    blobExistsCallback(r)

CallMount == \E d \in SomeDigests, f \in FromRepositories : mount(d, f)

AnswerMount ==
  \E r \in {Response(s, u, undefined, NoLocation, b) :
              s \in MountStatuses, u \in {undefined, "uuid-1"}, b \in Bodies}
           \cup TransportErrors :
    mountCallback(r)

CallManifestUpload == \E t \in Tags, m \in Manifests : manifestUpload(t, m)

AnswerManifestUpload ==
  \E r \in {Response(s, undefined, d, NoLocation, b) :
              s \in ManifestStatuses, d \in ContentDigests, b \in Bodies}
           \cup TransportErrors :
    manifestUploadCallback(r)

\* the blob argument: a Buffer or a Readable, with its bytes
UploadBlobs == [isBuffer : BOOLEAN, bytes : Blobs]

\* the digest argument: omitted, the blob's digest, or another blob's
UploadDigests(theBlob) ==
  {undefined, DigestOf(theBlob.bytes), DigestOf(<<>>), DigestOf(<<97>>)}

CallUpload ==
  \E theBlob \in UploadBlobs, n \in 0..MaxLen :
    \E d \in UploadDigests(theBlob) : upload(theBlob, n, d)

\* a response comes once the request is complete, a transport error at any
\* time
Answers(i, responses) ==
  IF i \in DOMAIN requests /\ requests[i].ended
    THEN responses \cup TransportErrors
    ELSE TransportErrors

\* the responses to the initiate POST; one without the header may name a
\* session in its body
InitiateResponses ==
  {Response(s, u, undefined, NoLocation, "") :
     s \in UploadStatuses, u \in Uuids}
  \cup {Response(s, undefined, undefined, NoLocation, b) :
          s \in UploadStatuses, b \in {"OK", "uuid-1"}}

AnswerUploadInitiate ==
  \E r \in Answers(1, InitiateResponses) : uploadInitiateCallback(r)

StreamData == \E k \in 1..MaxLen : streamData(k)

StreamEnd == streamEnd

AnswerUploadPut ==
  \E r \in Answers(2, {Response(s, undefined, d, NoLocation, "") :
                         s \in UploadStatuses, d \in ContentDigests}) :
    uploadPutCallback(r)

AnswerUploadPatch ==
  \E r \in Answers(2, {Response(s, u, undefined, NoLocation, "") :
                         s \in UploadStatuses, u \in Uuids}) :
    uploadPatchCallback(r)

AnswerUploadFinalize ==
  \E r \in Answers(3, {Response(s, undefined, d, NoLocation, "") :
                         s \in UploadStatuses, d \in ContentDigests}) :
    uploadFinalizeCallback(r)

CallBlob == \E d \in {DigestOf(<<97>>)}, stream \in BOOLEAN : blob(d, stream)

\* the responses to a blob GET: a redirect carries a Location (a 307 any of
\* them, a 200 the host-relative one) and a short body, any other response
\* one of the bodies
BlobResponses ==
  {Response(r[1], undefined, undefined, r[2], "moved") :
     r \in {x \in RedirectStatuses \X (Locations \ {NoLocation}) :
              x[1] = 200 => x[2].origin = ""}}
  \cup {Response(s, undefined, undefined, NoLocation, b) :
          s \in BlobStatuses, b \in Bodies}

AnswerBlobStream == \E r \in BlobResponses : blobStreamResponse(r)

FailBlobStream == \E r \in TransportErrors : blobStreamError(r)

AnswerBlob == \E r \in BlobResponses \cup TransportErrors : blobCallback(r)

ResData == \E i \in 1..RedirectLimit : resData(i)

Consume == consume

CallManifest == \E t \in Tags \ {""} : manifest(t)

AnswerManifest ==
  \E r \in {Response(s, undefined, d, NoLocation, b) :
              s \in ManifestGetStatuses, d \in {undefined, DigestOf(<<>>)},
              b \in ManifestBodies}
           \cup TransportErrors :
    manifestCallback(r)

Next ==
  \/ CallManifest
  \/ AnswerManifest
  \/ CallBlob
  \/ AnswerBlobStream
  \/ FailBlobStream
  \/ AnswerBlob
  \/ ResData
  \/ Consume
  \/ CallUpload
  \/ AnswerUploadInitiate
  \/ StreamData
  \/ StreamEnd
  \/ AnswerUploadPut
  \/ AnswerUploadPatch
  \/ AnswerUploadFinalize
  \/ CallBlobExists
  \/ AnswerBlobExists
  \/ CallMount
  \/ AnswerMount
  \/ CallManifestUpload
  \/ AnswerManifestUpload

Spec == Init /\ [][Next]_vars

(***************************************************************************)
(* Two upload() calls on one client.  The variables call, requests,        *)
(* outcome, settleCalls, uncaught and up are those of the call whose       *)
(* callback or stream event runs next; `peer` holds those of the other     *)
(* call.  Callbacks run one at a time, so an interleaving of the two calls *)
(* is a sequence of steps of either with switches between them.            *)
(***************************************************************************)
\* the call that is running, as a record
Context ==
  [call |-> call, requests |-> requests, outcome |-> outcome,
   settleCalls |-> settleCalls, uncaught |-> uncaught, up |-> up]

\* a variant in which the closure variables are shared by all calls on the
\* client (as fields of the client would be)
OwnClosure_Shared(own, running) == running

\* contentLength, digest, uuid and hash are parameters and locals of one
\* upload() call (lines 208, 236, 282): a call that resumes finds its own
\* values, not those of the call that ran last
OwnClosure(own, running) == own

\* the event loop turns to an event of the other call
switch ==
  /\ call.op = "upload"
  /\ peer' = Context
  /\ call' = peer.call
  /\ requests' = peer.requests
  /\ outcome' = peer.outcome
  /\ settleCalls' = peer.settleCalls
  /\ uncaught' = peer.uncaught
  /\ up' = OwnClosure(peer.up, up)
  /\ UNCHANGED dl

\* the two calls upload streams or buffers of these bytes, with no length
\* and no digest
TwoBlobs == [isBuffer : BOOLEAN, bytes : {<<97>>, <<98, 97>>}]

CallUploadTwo == \E theBlob \in TwoBlobs : upload(theBlob, 0, undefined)

Switch == switch

AnswerInitiateTwo ==
  \E r \in Answers(1, {Response(202, u, undefined, NoLocation, "") :
                         u \in {"uuid-1", "uuid-2"}}) :
    uploadInitiateCallback(r)

AnswerPutTwo ==
  \E r \in Answers(2, {Response(201, undefined, d, NoLocation, "") :
                         d \in {undefined, DigestOf(<<97>>)}}) :
    uploadPutCallback(r)

AnswerPatchTwo ==
  \E r \in Answers(2, {Response(204, u, undefined, NoLocation, "") :
                         u \in {undefined, "uuid-2"}}) :
    uploadPatchCallback(r)

AnswerFinalizeTwo ==
  \E r \in Answers(3, {Response(s, undefined, undefined, NoLocation, "") :
                         s \in {201, 500}}) :
    uploadFinalizeCallback(r)

NextTwo ==
  \/ CallUploadTwo
  \/ Switch
  \/ AnswerInitiateTwo
  \/ StreamData
  \/ StreamEnd
  \/ AnswerPutTwo
  \/ AnswerPatchTwo
  \/ AnswerFinalizeTwo

TwoSpec == Init /\ [][NextTwo]_vars

\* blob() alone, with every request that is issued eventually answered by a
\* response or a transport error
NextFetch ==
  \/ CallBlob
  \/ AnswerBlobStream
  \/ FailBlobStream
  \/ AnswerBlob
  \/ ResData
  \/ Consume

FetchSpec ==
  /\ Init
  /\ [][NextFetch]_vars
  /\ WF_vars(AnswerBlobStream \/ FailBlobStream)
  /\ WF_vars(AnswerBlob)

(***************************************************************************)
(* The claims.                                                             *)
(***************************************************************************)
Resolved == outcome.state = "resolved"

Rejected == outcome.state = "rejected"

\* request i has been answered with a response
Answered(i) == i \in DOMAIN requests /\ requests[i].reply.res.defined

\* request i has been answered with a transport error
Failed(i) == i \in DOMAIN requests /\ requests[i].reply.err # ""

RECURSIVE BodiesFrom(_)
\* the request bodies the transport received from request i on
BodiesFrom(i) ==
  IF i > Len(requests) THEN <<>> ELSE requests[i].body \o BodiesFrom(i + 1)

\* the methods of the requests issued, in order
Methods == [i \in DOMAIN requests |-> requests[i].method]

\* length and digest are known when upload() starts its session
KnownAtEntry ==
  /\ DefaultLength(call.blob, call.contentLength) # 0
  /\ Truthy(DefaultDigest(call.blob, call.digest))

\* C1: every upload that resolves returns the sha256 digest of exactly the
\* bytes the transport received as request body, on both paths.
C1_DigestOfBytesSent ==
  (call.op = "upload" /\ Resolved)
    => outcome.value.digest = "sha256:" \o Sha256Hex(BodiesFrom(1))

\* C2: on the monolithic path a resolved upload returns exactly the
\* caller-supplied (length, digest) pair, whatever Docker-Content-Digest the
\* finalize response carries.
C2_MonolithicReturnsCallerPair ==
  (call.op = "upload" /\ Resolved /\ KnownAtEntry)
    => outcome.value =
         [contentLength |-> DefaultLength(call.blob, call.contentLength),
          digest |-> DefaultDigest(call.blob, call.digest)]

\* C3: a resolved upload with length and digest known issued exactly POST,
\* PUT; one without issued exactly POST, PATCH, PUT; no request is repeated
\* and none is issued while an earlier one is unanswered.
C3_RequestSequence ==
  call.op = "upload" =>
    /\ (Resolved /\ KnownAtEntry) => Methods = <<"POST", "PUT">>
    /\ (Resolved /\ ~KnownAtEntry) => Methods = <<"POST", "PATCH", "PUT">>
    /\ \A i \in DOMAIN requests : Pending(i) => i = Len(requests)
    /\ \A i, j \in DOMAIN requests :
         i # j => <<requests[i].method, requests[i].url>>
                    # <<requests[j].method, requests[j].url>>

C3_Witness ==
  /\ call.op = "upload"
  /\ Resolved
  /\ ~call.blob.isBuffer
  /\ call.contentLength = 0
  /\ call.digest = undefined
  /\ Len(call.blob.bytes) = 2
  /\ Methods = <<"POST", "PATCH", "PUT">>

\* C4: uploading a zero-length buffer with no length and no digest issues
\* exactly 2 requests and, when accepted, returns length 0 and the sha256
\* digest of the empty string.
C4_EmptyBufferTwoRequests ==
  (/\ call.op = "upload"
   /\ call.blob = [isBuffer |-> TRUE, bytes |-> <<>>]
   /\ call.contentLength = 0
   /\ call.digest = undefined
   /\ Resolved)
    => /\ Len(requests) = 2
       /\ outcome.value =
            [contentLength |-> 0,
             digest |-> "sha256:e3b0c44298fc1c149afbf4c8996fb92427ae41e4649b934ca495991b7852b855"]

\* request i was answered with a response that carries a Location
IsRedirect(i) == Answered(i) /\ requests[i].reply.res.headers.location # NoLocation

\* request i was answered with status 200 and no Location
IsTerminal200(i) ==
  /\ Answered(i)
  /\ requests[i].reply.res.headers.location = NoLocation
  /\ requests[i].reply.res.statusCode = 200

\* the body a resolved blob() hands to the caller
FetchedBody ==
  IF call.stream THEN requests[outcome.value.res].reply.res.body
  ELSE outcome.value

\* C5: in both modes, at most 4 redirects followed by a 200 resolve with the
\* body of the 200; 5 redirects in a row fail with the redirect-loop error
\* naming the URL resolved from the 5th redirect, and no 6th GET is issued.
C5_RedirectChain ==
  call.op = "blob" =>
    /\ \A n \in 0..4 :
         ((\A i \in 1..n : IsRedirect(i)) /\ IsTerminal200(n + 1))
           => /\ Resolved
              /\ FetchedBody = requests[n + 1].reply.res.body
    /\ (\A i \in 1..5 : IsRedirect(i))
         => /\ Len(requests) = 5
            /\ Rejected
            /\ outcome.value =
                 [name |-> "Error",
                  message |->
                    "redirect looped 5 times "
                    \o Href(UrlResolve(requests[5].url,
                                       requests[5].reply.res.headers.location))]

C5_Witness ==
  /\ call.op = "blob"
  /\ call.stream
  /\ \A i \in 1..5 : IsRedirect(i)
  /\ requests[5].reply.res.headers.location.origin = ""
  /\ Rejected

\* C6: a transport error at any step of an upload rejects the upload with
\* that error, and the request that failed is the last one issued.
C6_TransportErrorRejects ==
  call.op = "upload" =>
    \A i \in DOMAIN requests :
      Failed(i) => /\ Rejected
                   /\ outcome.value = [name |-> "TransportError",
                                       message |-> requests[i].reply.err]
                   /\ i = Len(requests)

\* C7: with a response to the probe, blobExists resolves, to true when the
\* status is 200 and to false for every other status, and raises nothing.
C7_ExistsIff200 ==
  (call.op = "blobExists" /\ Answered(1))
    => /\ Resolved
       /\ outcome.value = (requests[1].reply.res.statusCode = 200)
       /\ uncaught = {}

C7_Witness ==
  /\ call.op = "blobExists"
  /\ Answered(1)
  /\ requests[1].reply.res.statusCode = 404
  /\ Resolved
  /\ outcome.value = FALSE

\* C8: manifestUpload puts the sha256 digest of the bytes it sends in the
\* path when there is no tag and the tag otherwise, and the digest it returns
\* is that locally computed digest whatever the tag and the response headers.
C8_ManifestReference ==
  call.op = "manifestUpload" =>
    LET local == "sha256:" \o Sha256Hex(requests[1].body)
    IN /\ call.tag = ""
            => requests[1].url.path = "/v2/proj/image/manifests/" \o local
       /\ call.tag = "v1"
            => requests[1].url.path = "/v2/proj/image/manifests/v1"
       /\ call.manifest.isBuffer => requests[1].body = call.manifest.bytes
       /\ Resolved => outcome.value.digest = local

C8_Witness ==
  /\ call.op = "manifestUpload"
  /\ call.tag = ""
  /\ ~call.manifest.isBuffer
  /\ Resolved
  /\ requests[1].reply.res.headers.contentDigest = DigestOf(<<97>>)

\* C9: mount issues one request; it resolves only on status 201, and on any
\* other status fails with the error naming the digest, the source repository
\* and the destination repository, without a follow-up request.
C9_MountOnly201 ==
  call.op = "mount" =>
    /\ Len(requests) = 1
    /\ Resolved => requests[1].reply.res.statusCode = 201
    /\ (Answered(1) /\ requests[1].reply.res.statusCode # 201)
         => /\ Rejected
            /\ outcome.value =
                 [name |-> "Error",
                  message |-> "mount failed for " \o call.digest \o " from "
                              \o call.fromRepository \o " to proj/image"]

C9_Witness ==
  /\ call.op = "mount"
  /\ Answered(1)
  /\ requests[1].reply.res.statusCode = 202
  /\ requests[1].reply.res.headers.uuid = "uuid-1"
  /\ Rejected

\* the session identifier the finalize request must use
SessionId ==
  IF Truthy(requests[2].reply.res.headers.uuid)
    THEN requests[2].reply.res.headers.uuid
    ELSE requests[1].reply.res.headers.uuid

\* C10: on the chunked path the finalize request goes to the identifier of
\* the append response when it carries one and to the identifier of the
\* initiate response otherwise, with Content-Length 0, no body and the digest
\* of the bytes transmitted as digest parameter; the result is the number of
\* bytes transmitted and that digest.
C10_ChunkedFinalize ==
  (call.op = "upload" /\ Len(requests) = 3) =>
    LET local == "sha256:" \o Sha256Hex(requests[2].body)
    IN /\ requests[3].method = "PUT"
       /\ requests[3].url.path =
            "/v2/proj/image/blobs/uploads/" \o SessionId \o "?digest=" \o local
       /\ requests[3].headers.ContentLength = 0
       /\ requests[3].body = <<>>
       /\ Resolved => outcome.value = [contentLength |-> Len(requests[2].body),
                                       digest |-> local]

C10_Witness ==
  /\ call.op = "upload"
  /\ Len(requests) = 3
  /\ ~call.blob.isBuffer
  /\ Len(requests[2].body) = 2
  /\ requests[1].reply.res.headers.uuid = "uuid-1"
  /\ requests[2].reply.res.headers.uuid = "uuid-2"
  /\ Resolved

\* C11: an initiate response without a Docker-Upload-Uuid header fails the
\* upload with the initiation error, whatever its body, and neither an append
\* nor a finalize request is issued.
C11_NoUuidFails ==
  (/\ call.op = "upload"
   /\ Answered(1)
   /\ requests[1].reply.res.headers.uuid = undefined)
    => /\ Rejected
       /\ outcome.value =
            [name |-> "Error",
             message |-> "request to start upload did not provide uuid in header docker-upload-uuid."]
       /\ Len(requests) = 1

C11_Witness ==
  /\ call.op = "upload"
  /\ Answered(1)
  /\ requests[1].reply.res.headers.uuid = undefined
  /\ requests[1].reply.res.body = "uuid-1"
  /\ requests[1].reply.res.statusCode = 202
  /\ Rejected

\* request i was answered with a response of another status than s
WrongStatus(i, s) == Answered(i) /\ requests[i].reply.res.statusCode # s

\* C12: an upload resolves only after the finalize PUT returned 201, and on
\* the chunked path only after the PATCH returned 204 before it; any other
\* status of the PATCH or of the PUT fails the upload at that request and no
\* later request is issued.
C12_ResolvedOnlyCommitted ==
  call.op = "upload" =>
    /\ Resolved =>
         /\ Len(requests) \in {2, 3}
         /\ requests[Len(requests)].method = "PUT"
         /\ Answered(Len(requests))
         /\ requests[Len(requests)].reply.res.statusCode = 201
         /\ Len(requests) = 3 =>
              /\ requests[2].method = "PATCH"
              /\ Answered(2)
              /\ requests[2].reply.res.statusCode = 204
    /\ \A i \in DOMAIN requests :
         \/ (requests[i].method = "PATCH" /\ WrongStatus(i, 204))
         \/ (requests[i].method = "PUT" /\ WrongStatus(i, 201))
         => /\ Rejected
            /\ outcome.value.name = "Error"
            /\ i = Len(requests)

C12_Witness ==
  /\ call.op = "upload"
  /\ Len(requests) = 2
  /\ requests[2].method = "PATCH"
  /\ Answered(2)
  /\ requests[2].reply.res.statusCode = 202
  /\ Rejected

\* C20: the initiate response starts the session on its Docker-Upload-Uuid
\* header alone, whatever its status: with the header the append or finalize
\* request is issued, also on an error status; without it the upload fails,
\* also on a success status.
C20_InitiateStatusUnchecked ==
  (call.op = "upload" /\ Answered(1)) =>
    LET res == requests[1].reply.res
    IN /\ res.headers.uuid \in {"uuid-1", "uuid-2"}
            => /\ Len(requests) >= 2
               /\ requests[2].method \in {"PATCH", "PUT"}
               /\ Len(requests) = 2 /\ Pending(2) => ~Rejected
       /\ res.headers.uuid = undefined => Len(requests) = 1 /\ Rejected

C20_Witness ==
  /\ call.op = "upload"
  /\ Answered(1)
  /\ requests[1].reply.res.statusCode = 500
  /\ requests[1].reply.res.headers.uuid = "uuid-1"
  /\ Len(requests) = 2
  /\ requests[2].method = "PATCH"

\* C18: on a transport error of the probe blobExists rejects with that error,
\* does not resolve, and the rejection is all the callback does: no second
\* settling call and nothing thrown.
C18_ExistsErrorOnlyRejects ==
  (call.op = "blobExists" /\ Failed(1))
    => /\ Rejected
       /\ outcome.value = [name |-> "TransportError",
                           message |-> requests[1].reply.err]
       /\ settleCalls = 1
       /\ uncaught = {}

\* the message of the error for a status other than 200
UnexpectedStatus(res) ==
  IF call.stream
    THEN "unexpected status code " \o ToString(res.statusCode)
         \o " streaming blob"
    ELSE "unexpected status code " \o ToString(res.statusCode) \o " "
         \o res.body

\* C19: blob treats a response as a redirect exactly when it carries a
\* Location, whatever its status: it is followed (or ends the chain at the hop
\* limit) and its body is never returned; only a response without a Location
\* is held to status 200, and fails with the unexpected-status error
\* otherwise.
C19_RedirectIffLocation ==
  call.op = "blob" =>
    \A i \in DOMAIN requests :
      Answered(i) =>
        LET res == requests[i].reply.res
        IN /\ res.headers.location # NoLocation
                => /\ IF i < 5
                        THEN /\ Len(requests) > i
                             /\ requests[i + 1].url =
                                  UrlResolve(requests[i].url,
                                             res.headers.location)
                        ELSE Len(requests) = i /\ Rejected
                   /\ Resolved => i < Len(requests)
           /\ res.headers.location = NoLocation
                => /\ i = Len(requests)
                   /\ res.statusCode = 200 => Resolved
                   /\ res.statusCode # 200
                        => /\ Rejected
                           /\ outcome.value =
                                [name |-> "Error",
                                 message |-> UnexpectedStatus(res)]

C19_Witness ==
  /\ call.op = "blob"
  /\ Len(requests) = 2
  /\ Answered(1)
  /\ requests[1].reply.res.statusCode = 200
  /\ requests[1].reply.res.headers.location # NoLocation
  /\ Answered(2)
  /\ requests[2].reply.res.statusCode = 404
  /\ Rejected

\* the bodies that are JSON text, and those among them whose value has a
\* config field
JsonBodies ==
  {"{\"schemaVersion\":2,\"config\":{\"size\":1},\"layers\":[]}",
   "{\"errors\":[]}", "{\"config\":null}", "null"}

BodiesWithConfig ==
  {"{\"schemaVersion\":2,\"config\":{\"size\":1},\"layers\":[]}",
   "{\"config\":null}"}

\* C14: manifest resolves only on status 200 with a body whose JSON value has
\* a config field; a JSON body with another status, or with status 200 and no
\* config field, fails with the error carrying status and body; a body that
\* is not JSON fails with the parse error for every status.
C14_ManifestFetch ==
  (call.op = "manifest" /\ Answered(1)) =>
    LET res == requests[1].reply.res
    IN /\ Resolved => res.statusCode = 200 /\ res.body \in BodiesWithConfig
       /\ (/\ res.body \in JsonBodies
           /\ res.statusCode # 200 \/ res.body \notin BodiesWithConfig)
            => /\ Rejected
               /\ outcome.value =
                    [name |-> "Error",
                     message |-> "unexpected status code "
                                 \o ToString(res.statusCode)
                                 \o " from docker registry. response "
                                 \o res.body]
       /\ res.body \notin JsonBodies
            => Rejected /\ outcome.value.name = "SyntaxError"

\* C13: a streaming blob() resolves with a paused Readable: until the caller
\* attaches a consumer the response emits nothing, so the consumer receives
\* the whole body.
C13_PausedUntilConsumed ==
  (call.op = "blob" /\ call.stream /\ Resolved) =>
    LET k == outcome.value.res
    IN /\ ~dl.consumer.attached => dl.res[k].paused /\ ~dl.res[k].read
       /\ dl.res[k].read
            => dl.consumer.received = requests[k].reply.res.body

C13_Witness ==
  /\ call.op = "blob"
  /\ call.stream
  /\ Resolved
  /\ Len(requests) = 2
  /\ dl.consumer.attached
  /\ dl.res[2].read
  /\ dl.consumer.received = "OK"

\* response i carries a Location and the next request has been issued
Superseded(i) == IsRedirect(i) /\ i < Len(requests)

\* C17, as stated: once blob() has settled, every superseded redirect
\* response has had its body read, in both modes.
C17_DrainedWhenSettled ==
  (call.op = "blob" /\ outcome.state # "pending")
    => \A i \in DOMAIN requests : Superseded(i) => dl.res[i].read

\* C17, amended: a superseded redirect response is consumed: in buffered mode
\* its body has been read before the next request is issued; in streaming
\* mode it has discarding 'data' and 'error' listeners and is not paused, so
\* it is read as it arrives.  Redirect, redirect, 200 "OK" resolves to "OK".
C17_SupersededDrained ==
  call.op = "blob" =>
    /\ \A i \in DOMAIN requests :
         Superseded(i) =>
           IF call.stream
             THEN /\ dl.res[i].dataListener
                  /\ dl.res[i].errorListener = "noop"
                  /\ ~dl.res[i].paused
             ELSE dl.res[i].read
    /\ (/\ Len(requests) = 3
        /\ IsRedirect(1)
        /\ IsRedirect(2)
        /\ IsTerminal200(3)
        /\ requests[3].reply.res.body = "OK")
         => Resolved /\ FetchedBody = "OK"

C17_Witness ==
  /\ call.op = "blob"
  /\ call.stream
  /\ Len(requests) = 3
  /\ IsRedirect(1)
  /\ IsRedirect(2)
  /\ IsTerminal200(3)
  /\ requests[3].reply.res.body = "OK"
  /\ Resolved
  /\ dl.res[1].read
  /\ dl.res[2].read

\* no request is waiting for its answer
Quiet == \A i \in DOMAIN requests : ~Pending(i)

\* C16: whatever the registry answers, blob() issues at most 5 GET requests
\* and, every request being answered, settles; it settles once: one settling
\* call, and a settled outcome never changes.
C16_FetchTerminates ==
  /\ [](call.op = "blob"
          => /\ Len(requests) <= 5
             /\ \A i \in DOMAIN requests : requests[i].method = "GET"
             /\ settleCalls <= 1)
  /\ (call.op = "blob")
       ~> (outcome.state # "pending" /\ settleCalls = 1 /\ Quiet)
  /\ [][outcome.state # "pending" => outcome' = outcome]_vars

C16_Witness ==
  /\ call.op = "blob"
  /\ ~call.stream
  /\ Len(requests) = 5
  /\ \A i \in 1..5 :
       /\ IsRedirect(i)
       /\ requests[i].reply.res.headers.location =
            [origin |-> "https://cdn.example", path |-> "/blob"]
  /\ Rejected
  /\ settleCalls = 1

RECURSIVE IsPrefix(_, _)
\* s is the beginning of t
IsPrefix(s, t) ==
  \/ s = <<>>
  \/ /\ t # <<>>
     /\ Head(s) = Head(t)
     /\ IsPrefix(Tail(s), Tail(t))

\* the closure variables and the result of the upload c are those its own
\* call, its own responses and its own bytes determine
Alone(c) ==
  c.call.op = "upload" =>
    LET reqs == c.requests
        bytes == c.call.blob.bytes
        chunked == Len(reqs) >= 2 /\ reqs[2].method = "PATCH"
        rotated == /\ chunked
                   /\ reqs[2].reply.res.defined
                   /\ Truthy(reqs[2].reply.res.headers.uuid)
    IN /\ Len(reqs) >= 2 =>
            c.up.uuid = IF rotated THEN reqs[2].reply.res.headers.uuid
                        ELSE reqs[1].reply.res.headers.uuid
       /\ chunked =>
            /\ IsPrefix(reqs[2].body, bytes)
            /\ c.up.hash.data = reqs[2].body
            /\ c.up.contentLength = Len(reqs[2].body)
       /\ c.outcome.state = "resolved" =>
            c.outcome.value =
              IF chunked
                THEN [contentLength |-> Len(bytes),
                      digest |-> "sha256:" \o Sha256Hex(bytes)]
                ELSE [contentLength |-> Len(bytes),
                      digest |-> Str(reqs[2].reply.res.headers.contentDigest)]

\* C15: two uploads on one client, interleaved in any order, do not
\* interfere: the session identifier, byte count and hash of each follow from
\* its own responses and bytes, and each returns what it returns alone.
C15_NoInterference == Alone(Context) /\ Alone(peer)

C15_Witness ==
  /\ call.op = "upload"
  /\ peer.call.op = "upload"
  /\ ~call.blob.isBuffer
  /\ ~peer.call.blob.isBuffer
  /\ call.blob.bytes = <<97>>
  /\ peer.call.blob.bytes = <<98, 97>>
  /\ up.uuid = "uuid-2"
  /\ peer.up.uuid = "uuid-1"
  /\ Resolved
  /\ peer.outcome.state = "resolved"

====
